---- MODULE Spec2Model ----
(***************************************************************************)
(* Model of bgchanger.py: the BackgroundChanger class (hash store, image   *)
(* download with content de-duplication, local image pick, wallpaper       *)
(* setter) and the command-line entry point main().  One process run is    *)
(* main(); the hash file and the wallpapers directory persist from one run *)
(* to the next.                                                            *)
(***************************************************************************)
EXTENDS Integers, Sequences, FiniteSets, TLC

\* ------------------------------------------------------------------ bounds
\* Number of consecutive process runs explored.
MaxRuns == 2
\* Largest number of photos in one search response (photo ids are 1..MaxPhotos).
MaxPhotos == 2

\* ------------------------------------------------------- program constants
term_list == <<"mountains", "polygon", "abstract", "4k wallpaper", "landscape">>
\* The terms random.choice draws in the model: a prefix of term_list.
Terms == {term_list[1], term_list[2]}

image_extensions == {".jpg", ".jpeg", ".png", ".bmp", ".gif"}
TruthyStrings == {"true", "1", "yes", "on"}

\* ------------------------------------------------------------ input domains
\* Command lines: argv[1] is the script name, as in sys.argv[0].
Argvs ==
    { <<"bgchanger.py">>,
      <<"bgchanger.py", "true">>,
      <<"bgchanger.py", "YES", "x">>,
      <<"bgchanger.py", "off", "x">> }

\* The value of the environment variable pexels_api_key ("" when unset).
NoKey == ""
EnvKeys == {NoKey, "secret"}

\* Image contents a server can deliver, and their SHA-256 digests.
Bytes == {"b1", "b2"}
PhotoIds == 1..MaxPhotos

\* File contents in a topic directory.
NoFile == "absent"
SubDir == "directory"

LocalNames == {"a.jpg", "b.txt", "c.PNG", "d.gif"}
PexelsNames == <<"pexels_1.jpg", "pexels_2.jpg", "pexels_3.jpg", "pexels_4.jpg">>
Names == LocalNames \cup {PexelsNames[i] : i \in PhotoIds}

NoPath == [topic |-> "", name |-> ""]

\* ------------------------------------------------------------ pure helpers
Range(s) == {s[i] : i \in 1..Len(s)}

\* All orders in which the elements of S can be listed (list(set), shuffle).
Orders(S) ==
    {s \in [1..Cardinality(S) -> S] : \A i, j \in 1..Cardinality(S) : s[i] = s[j] => i = j}

\* str.lower() on the strings the model uses.
Lower(s) ==
    CASE s = "YES" -> "yes"
      [] s = "TRUE" -> "true"
      [] s = ".PNG" -> ".png"
      [] OTHER -> s

\* Path.suffix of a file name.
Suffix(n) ==
    CASE n = "b.txt" -> ".txt"
      [] n = "c.PNG" -> ".PNG"
      [] n = "d.gif" -> ".gif"
      [] OTHER -> ".jpg"

\* get_image_hash: hex SHA-256 of the bytes (collision-free on Bytes).
get_image_hash(b) ==
    CASE b = "b1" -> "sha256:b1"
      [] b = "b2" -> "sha256:b2"
      [] OTHER -> "sha256:other"

\* f"pexels_{photo['id']}.jpg" under base_dir / query_term.
SavePath(q, id) == [topic |-> q, name |-> PexelsNames[id]]

\* ------------------------------------------------------------- hash store
\* The hash file is a record [kind, items]:
\*   "missing"     no file            "unreadable"  open() raises IOError
\*   "invalid"     not JSON           "number"      a JSON number
\*   "object"      a JSON object, items = its keys
\*   "array"       a JSON array, items = its elements
\* A JSON element is a digest string, the number "num:7", or the nested
\* array "list:[]".
NestedItems == {"list:[]"}

MissingFile == [kind |-> "missing", items |-> <<>>]

\* The hash files a first run can find: none, an array of digests (with a
\* repeated entry), one that holds a number.
HashFiles0 ==
    { MissingFile,
      [kind |-> "array", items |-> <<"sha256:b1", "sha256:b1">>],
      [kind |-> "number", items |-> <<>>] }

\* Hash files of every kind, for load_used_hashes.
HashFilesAny ==
    { MissingFile,
      [kind |-> "unreadable", items |-> <<>>],
      [kind |-> "invalid", items |-> <<>>],
      [kind |-> "number", items |-> <<>>],
      [kind |-> "object", items |-> <<"k">>],
      [kind |-> "array", items |-> <<>>],
      [kind |-> "array", items |-> <<"sha256:b1", "sha256:b1">>],
      [kind |-> "array", items |-> <<"num:7">>],
      [kind |-> "array", items |-> <<"list:[]">>] }

\* load_used_hashes: [raised, value].  set(json.load(f)) raises TypeError,
\* which the except clause does not catch, for a number and for an array
\* holding an unhashable (nested) element.
load_used_hashes(f) ==
    CASE f.kind = "missing" -> [raised |-> FALSE, value |-> {}]
      [] f.kind = "unreadable" -> [raised |-> FALSE, value |-> {}]
      [] f.kind = "invalid" -> [raised |-> FALSE, value |-> {}]
      [] f.kind = "number" -> [raised |-> TRUE, value |-> {}]
      [] f.kind = "object" -> [raised |-> FALSE, value |-> Range(f.items)]
      [] OTHER ->
           IF Range(f.items) \cap NestedItems # {}
             THEN [raised |-> TRUE, value |-> {}]
             ELSE [raised |-> FALSE, value |-> Range(f.items)]

\* save_used_hashes, mutated: writes an empty list instead of the set.
save_used_hashes_empty(used, f) ==
    {[ok |-> TRUE, file |-> [kind |-> "array", items |-> <<>>]]}

\* list(self.used_hashes): each element once.  No operation of the program
\* reads the order of the list, so the model fixes one.
AsList(S) == CHOOSE s \in Orders(S) : TRUE

\* save_used_hashes: the possible [ok, file] outcomes.  On success the file
\* is the full set as a JSON array; an IOError leaves the file as it was (open
\* failed) or truncated (the write failed after open truncated it).
save_used_hashes(used, f) ==
    {[ok |-> TRUE, file |-> [kind |-> "array", items |-> AsList(used)]]}
      \cup {[ok |-> FALSE, file |-> f],
            [ok |-> FALSE, file |-> [kind |-> "invalid", items |-> <<>>]]}

\* --------------------------------------------------------- download_image
\* "if image_hash in self.used_hashes", mutated: the check never fires.
is_used_never(h, used) == FALSE

\* "if image_hash in self.used_hashes".
is_used(h, used) == h \in used

\* An outcome of download_image: what it returns (path), the used-hash set
\* and the hash file it leaves, and what the save path then holds (content).
Outcome(k, b, p, used, f, c, ok) ==
    [kind |-> k, bytes |-> b, path |-> p, used |-> used, file |-> f,
     content |-> c, save_ok |-> ok]

\* requests.get / raise_for_status raised RequestException: return None.
transport_failure(used, f) ==
    {Outcome("transport_error", "", NoPath, used, f, NoFile, TRUE)}

\* The digest is already used: "Image already used, skipping...", return None.
duplicate_skip(used, f, b) ==
    {Outcome("duplicate", b, NoPath, used, f, NoFile, TRUE)}

\* write_failure, mutated: the digest is registered and persisted before the
\* image file is written.
write_failure_registered(used, f, b) ==
    {Outcome("io_error", b, NoPath, used \cup {get_image_hash(b)}, s.file, c, s.ok) :
        s \in save_used_hashes(used \cup {get_image_hash(b)}, f), c \in {NoFile}}

\* open(save_path, 'wb') raised IOError: no file is created, return None.
\* (A write failing after a successful open would leave a partial file; the
\* model takes the failure at open.)
write_failure(used, f, b) ==
    {Outcome("io_error", b, NoPath, used, f, NoFile, TRUE)}

\* The image is written, the digest added and the hash file saved; the save
\* path is returned also when saving the hash file failed.
saved(used, f, b, p) ==
    {Outcome("saved", b, p, used \cup {get_image_hash(b)}, s.file, b, s.ok) :
        s \in save_used_hashes(used \cup {get_image_hash(b)}, f)}

download_image(used, f, p) ==
    transport_failure(used, f)
      \cup UNION { IF is_used(get_image_hash(b), used)
                     THEN duplicate_skip(used, f, b)
                     ELSE write_failure(used, f, b) \cup saved(used, f, b, p)
                   : b \in Bytes }

\* -------------------------------------------------------- get_local_image
IsFile(c) == c \notin {NoFile, SubDir}

\* The paths random.choice can return, or {NoPath} when the folder is
\* missing or holds no image file.
get_local_image(q, d) ==
    IF ~d[q].exists
      THEN {NoPath}
      ELSE LET image_files ==
                 {n \in Names : IsFile(d[q].files[n])
                                  /\ Lower(Suffix(n)) \in image_extensions}
           IN  IF image_files = {}
                 THEN {NoPath}
                 ELSE {[topic |-> q, name |-> n] : n \in image_files}

\* ------------------------------------------------------- fetch_from_pexels
\* What the search request can answer.  Without a credential the request
\* is still sent (requests drops a header whose value is None) and the
\* service answers 401, which raise_for_status turns into an HTTPError.
Responses(key) ==
    IF key = NoKey
      THEN {[kind |-> "http_error", ids |-> {}]}
      ELSE {[kind |-> k, ids |-> {}] : k \in {"http_error", "bad_json", "non_dict"}}
             \cup {[kind |-> "missing_field", ids |-> {1}]}
             \cup {[kind |-> "photos", ids |-> S] : S \in SUBSET PhotoIds}

\* "if not photos", mutated: an empty list is not noticed.
no_photos_never(ids) == FALSE

\* "if not photos".
no_photos(ids) == ids = {}

\* "if downloaded_path: return downloaded_path", mutated: a transport error
\* also leaves the loop.
returns_from_loop_on_error(o) == o.path # NoPath \/ o.kind = "transport_error"

\* "if downloaded_path: return downloaded_path".
returns_from_loop(o) == o.path # NoPath

\* ------------------------------------------------------------------- main
\* "if len(sys.argv) > 2: ... sys.argv[1].lower() in ['true','1','yes','on']"
parse_local_only(a) ==
    IF Len(a) > 2 THEN Lower(a[2]) \in TruthyStrings ELSE FALSE

\* exit status, mutated: always 0.
exit_code_zero(success) == 0

\* "if not success: sys.exit(1)"; otherwise main returns and the status is 0.
exit_code(success) == IF success THEN 0 ELSE 1

\* os.path.abspath(image_path).
abspath(p) == [cwd |-> "cwd", topic |-> p.topic, name |-> p.name]

\* ------------------------------------------------------------------ state
VARIABLES
    run,              \* number of the current process run
    pc,               \* "start", "change_background", "loop", "set_wallpaper", "done"
    envKey,           \* os.getenv("pexels_api_key")
    hashFile,         \* wallpapers/image_hashes.json
    dirs,             \* wallpapers/<term>: [exists, files]
    argv,             \* sys.argv
    api_key,          \* self.api_key
    query_term,
    local_only,
    used_hashes,      \* self.used_hashes
    photos,           \* the shuffled list of photo ids
    idx,              \* position of the for loop in photos
    image_path,       \* change_background's image_path (NoPath: None)
    exitCode,         \* exit status, meaningful when pc = "done"
    raised,           \* the run ended by an uncaught exception
    \* history of the current run
    usedAtStart,      \* used_hashes as loaded by __init__
    loadedFrom,       \* the hash file load_used_hashes read
    searchRequests,   \* GET requests sent to the search API
    zeroResults,      \* the search answered an empty photo list
    downloadRequests, \* number of image URLs requested
    errAt,            \* number of the first download request that failed in transport
    localCalls,       \* arguments of the get_local_image calls, in order
    localPicked,      \* what the last get_local_image call returned
    setterCalls,      \* arguments of the set_wallpaper calls, in order
    setterResult,     \* what the last set_wallpaper call returned
    last,             \* the last loop iteration: what happened, to which photo,
                      \* and the bytes that were hashed and kept or skipped
    \* history of all runs
    hashWriteFailed   \* some save_used_hashes call failed

persistent == <<envKey, hashFile, dirs, hashWriteFailed>>
program == <<argv, api_key, query_term, local_only, used_hashes, photos, idx,
             image_path, exitCode, raised>>
history == <<usedAtStart, loadedFrom, searchRequests, zeroResults, downloadRequests,
             errAt, localCalls, localPicked, setterCalls, setterResult, last>>
vars == <<run, pc, persistent, program, history>>

NoLast == [kind |-> "none", id |-> 0, bytes |-> ""]

EmptyDir == [exists |-> FALSE, files |-> [n \in Names |-> NoFile]]

\* The wallpapers directory before the first run: a curated folder for the
\* first term (two image files, a text file, a subfolder), none for the others.
InitialDirs ==
    { [q \in Terms |->
          IF q = term_list[1]
            THEN [exists |-> TRUE,
                  files |-> [n \in Names |->
                               CASE n = "a.jpg" -> "b1"
                                 [] n = "b.txt" -> "b2"
                                 [] n = "c.PNG" -> "b2"
                                 [] n = "d.gif" -> SubDir
                                 [] OTHER -> NoFile]]
            ELSE EmptyDir] }

\* The per-run variables before main() starts.
Fresh ==
    /\ argv = <<>> /\ api_key = NoKey /\ query_term = "" /\ local_only = FALSE
    /\ used_hashes = {} /\ photos = <<>> /\ idx = 0 /\ image_path = NoPath
    /\ exitCode = 0 /\ raised = FALSE
    /\ usedAtStart = {} /\ loadedFrom = MissingFile /\ searchRequests = 0
    /\ zeroResults = FALSE /\ downloadRequests = 0 /\ errAt = 0
    /\ localCalls = <<>> /\ localPicked = NoPath /\ setterCalls = <<>>
    /\ setterResult = FALSE /\ last = NoLast

InitWith(files) ==
    /\ run = 1 /\ pc = "start"
    /\ envKey \in EnvKeys
    /\ hashFile \in files
    /\ dirs \in InitialDirs
    /\ hashWriteFailed = FALSE
    /\ Fresh

Init == InitWith(HashFiles0)

\* The first run may find any hash file.
InitAnyFile == InitWith(HashFilesAny)

\* change_background returned False: "if not success: sys.exit(1)".
Fails ==
    /\ pc' = "done"
    /\ image_path' = NoPath
    /\ exitCode' = exit_code(FALSE)

\* main() up to the call of change_background: the arguments, the term, and
\* BackgroundChanger() with load_used_hashes.  A TypeError from
\* load_used_hashes is not caught anywhere: the process dies with status 1.
Main ==
    /\ pc = "start"
    /\ \E a \in Argvs, q \in Terms :
         LET r == load_used_hashes(hashFile) IN
         /\ argv' = a
         /\ query_term' = q
         /\ local_only' = parse_local_only(a)
         /\ api_key' = envKey
         /\ loadedFrom' = hashFile
         /\ used_hashes' = r.value
         /\ usedAtStart' = r.value
         /\ raised' = r.raised
         /\ pc' = IF r.raised THEN "done" ELSE "change_background"
         /\ exitCode' = IF r.raised THEN 1 ELSE exitCode
    /\ UNCHANGED <<run, persistent, photos, idx, image_path, searchRequests,
                   zeroResults, downloadRequests, errAt, localCalls, localPicked,
                   setterCalls, setterResult, last>>

\* change_background with local_only: get_local_image, then "if image_path".
ChangeBackgroundLocal ==
    /\ pc = "change_background" /\ local_only
    /\ localCalls' = Append(localCalls, query_term)
    /\ \E p \in get_local_image(query_term, dirs) :
         /\ localPicked' = p
         /\ IF p # NoPath
              THEN /\ image_path' = p /\ pc' = "set_wallpaper"
                   /\ UNCHANGED exitCode
              ELSE Fails
    /\ UNCHANGED <<run, persistent, argv, api_key, query_term, local_only,
                   used_hashes, photos, idx, raised, usedAtStart, loadedFrom,
                   searchRequests, zeroResults, downloadRequests, errAt,
                   setterCalls, setterResult, last>>

\* fetch_from_pexels up to the shuffle: the search request and its answer.
\*   http_error, bad_json, missing_field: caught, return None
\*   non_dict: data.get raises AttributeError, caught nowhere
\*   photos: an empty list calls get_local_image, drops what it returns and
\*           returns None; otherwise the list is shuffled
FetchSearch ==
    /\ pc = "change_background" /\ ~local_only
    /\ searchRequests' = searchRequests + 1
    /\ \E resp \in Responses(api_key) :
         IF resp.kind = "photos" /\ ~no_photos(resp.ids)
           THEN /\ \E s \in Orders(resp.ids) : photos' = s
                /\ idx' = 1
                /\ pc' = "loop"
                /\ zeroResults' = (resp.ids = {})
                /\ UNCHANGED <<image_path, exitCode, raised, localCalls, localPicked>>
           ELSE /\ Fails
                /\ raised' = (resp.kind = "non_dict")
                /\ zeroResults' = (resp.kind = "photos" /\ resp.ids = {})
                /\ IF resp.kind = "photos"
                     THEN /\ localCalls' = Append(localCalls, query_term)
                          /\ localPicked' \in get_local_image(query_term, dirs)
                     ELSE UNCHANGED <<localCalls, localPicked>>
                /\ UNCHANGED <<photos, idx>>
    /\ UNCHANGED <<run, persistent, argv, api_key, query_term, local_only,
                   used_hashes, usedAtStart, loadedFrom, downloadRequests, errAt,
                   setterCalls, setterResult, last>>

\* One iteration of "for photo in photos": mkdir the term folder, skip a
\* photo whose file exists, otherwise download_image.
FetchLoop ==
    /\ pc = "loop" /\ idx <= Len(photos)
    /\ LET id == photos[idx]
           p == SavePath(query_term, id)
           there == dirs[query_term].files[p.name] # NoFile
       IN  IF there
             THEN /\ dirs' = [dirs EXCEPT ![query_term].exists = TRUE]
                  /\ last' = [kind |-> "exists", id |-> id, bytes |-> ""]
                  /\ idx' = idx + 1
                  /\ UNCHANGED <<pc, hashFile, hashWriteFailed, used_hashes, image_path,
                                 exitCode, downloadRequests, errAt>>
             ELSE \E o \in download_image(used_hashes, hashFile, p) :
                  /\ downloadRequests' = downloadRequests + 1
                  /\ errAt' = IF o.kind = "transport_error" /\ errAt = 0
                                THEN downloadRequests + 1 ELSE errAt
                  /\ dirs' = [dirs EXCEPT ![query_term].exists = TRUE,
                                          ![query_term].files[p.name] = o.content]
                  /\ used_hashes' = o.used
                  /\ hashFile' = o.file
                  /\ hashWriteFailed' = (hashWriteFailed \/ ~o.save_ok)
                  /\ last' = [kind |-> o.kind, id |-> id,
                               bytes |-> IF o.kind \in {"duplicate", "saved"}
                                           THEN o.bytes ELSE ""]
                  /\ IF returns_from_loop(o)
                       THEN /\ UNCHANGED idx
                            /\ IF o.path # NoPath
                                 THEN /\ image_path' = o.path /\ pc' = "set_wallpaper"
                                      /\ UNCHANGED exitCode
                                 ELSE Fails
                       ELSE /\ idx' = idx + 1
                            /\ UNCHANGED <<pc, image_path, exitCode>>
    /\ UNCHANGED <<run, envKey, argv, api_key, query_term, local_only, photos, raised,
                   usedAtStart, loadedFrom, searchRequests, zeroResults, localCalls,
                   localPicked, setterCalls, setterResult>>

\* The loop ran out of photos: "All available images have been used".
FetchExhausted ==
    /\ pc = "loop" /\ idx > Len(photos)
    /\ Fails
    /\ UNCHANGED <<run, persistent, argv, api_key, query_term, local_only,
                   used_hashes, photos, idx, raised, history>>

\* set_wallpaper(image_path): SystemParametersInfoW answers nonzero (True),
\* or zero or an exception (False); then main's exit status.
SetWallpaper ==
    /\ pc = "set_wallpaper"
    /\ setterCalls' = Append(setterCalls, abspath(image_path))
    /\ \E result \in BOOLEAN :
         /\ setterResult' = result
         /\ exitCode' = exit_code(result)
    /\ pc' = "done"
    /\ UNCHANGED <<run, persistent, argv, api_key, query_term, local_only,
                   used_hashes, photos, idx, image_path, raised, usedAtStart,
                   loadedFrom, searchRequests, zeroResults, downloadRequests, errAt,
                   localCalls, localPicked, last>>

\* The program is started again: a new process, the same files.
Restart ==
    /\ pc = "done" /\ run < MaxRuns
    /\ run' = run + 1
    /\ pc' = "start"
    /\ argv' = <<>> /\ api_key' = NoKey /\ query_term' = "" /\ local_only' = FALSE
    /\ used_hashes' = {} /\ photos' = <<>> /\ idx' = 0 /\ image_path' = NoPath
    /\ exitCode' = 0 /\ raised' = FALSE
    /\ usedAtStart' = {} /\ loadedFrom' = MissingFile /\ searchRequests' = 0
    /\ zeroResults' = FALSE /\ downloadRequests' = 0 /\ errAt' = 0
    /\ localCalls' = <<>> /\ localPicked' = NoPath /\ setterCalls' = <<>>
    /\ setterResult' = FALSE /\ last' = NoLast
    /\ UNCHANGED persistent

Next ==
    \/ Main
    \/ ChangeBackgroundLocal
    \/ FetchSearch
    \/ FetchLoop
    \/ FetchExhausted
    \/ SetWallpaper
    \/ Restart

Spec == Init /\ [][Next]_vars

\* The start of a run alone (main up to change_background), on any hash file.
SpecLoad == InitAnyFile /\ [][Main]_vars

TypeOK ==
    /\ run \in 1..MaxRuns
    /\ pc \in {"start", "change_background", "loop", "set_wallpaper", "done"}
    /\ exitCode \in {0, 1}
    /\ idx \in 0..(MaxPhotos + 1)

\* ----------------------------------------------------------------- claims
\* A step of FetchLoop that called download_image.
Downloaded == downloadRequests' = downloadRequests + 1

\* The files of the term folders are the same before and after the step.
FilesUnchanged == \A q \in Terms : dirs'[q].files = dirs[q].files

\* C1: fetch_from_pexels never saves or returns an image whose digest is
\* already in the used-hash set.  Every file a loop step writes and every
\* path it returns holds bytes whose digest was not in used_hashes before the
\* step; a step that finds the digest used writes no file, returns nothing
\* and moves to the next candidate.
C1_DedupOnDownload ==
    [][ pc = "loop" =>
          /\ \A q \in Terms, n \in Names :
               dirs'[q].files[n] # dirs[q].files[n] =>
                 get_image_hash(dirs'[q].files[n]) \notin used_hashes
          /\ image_path' # NoPath =>
               /\ last'.kind = "saved"
               /\ dirs'[image_path'.topic].files[image_path'.name] = last'.bytes
               /\ get_image_hash(last'.bytes) \notin used_hashes
          /\ (Downloaded /\ get_image_hash(last'.bytes) \in used_hashes) =>
               /\ last'.kind = "duplicate"
               /\ FilesUnchanged
               /\ image_path' = NoPath
               /\ pc' = "loop" /\ idx' = idx + 1
      ]_vars

\* C1 witness: a candidate is skipped as a duplicate while the file of another
\* candidate, saved and registered earlier, holds the same bytes.
C1_Witness ==
    /\ last.kind = "duplicate"
    /\ get_image_hash(last.bytes) \in used_hashes
    /\ \E id \in PhotoIds :
         /\ id # last.id
         /\ dirs[query_term].files[PexelsNames[id]] = last.bytes
         /\ dirs[query_term].files[PexelsNames[last.id]] = NoFile

\* C2 as stated: after a download failed in transport no later download
\* request is issued and the remote variant returns no image.
C2_AbortsOnTransportError ==
    errAt # 0 => (downloadRequests = errAt /\ image_path = NoPath)

\* C2 amended: a download that fails in transport returns no path for that
\* candidate only: nothing is written or registered and the loop goes on
\* with the next candidate of the shuffled list.
C2_ContinuesAfterTransportError ==
    [][ (Downloaded /\ last'.kind = "transport_error") =>
          /\ pc' = "loop" /\ idx' = idx + 1
          /\ image_path' = NoPath
          /\ FilesUnchanged
          /\ used_hashes' = used_hashes /\ hashFile' = hashFile
      ]_vars

\* C2 witness: after a transport error a later candidate was downloaded and
\* saved, and its path returned.
C2_Witness ==
    /\ errAt # 0 /\ downloadRequests > errAt
    /\ last.kind = "saved" /\ image_path # NoPath

\* C3 as stated: in remote mode, when the search returns no photo and the
\* term folder holds an eligible image, the picked path is handed to the
\* wallpaper setter.
C3_FallbackResultUsed ==
    (pc = "done" /\ ~local_only /\ zeroResults
       /\ get_local_image(query_term, dirs) # {NoPath})
      => (localPicked # NoPath /\ setterCalls = <<abspath(localPicked)>>)

\* C4: when the search returns no photo, get_local_image is called once, for
\* the same term, no image is requested and used_hashes is as loaded.
C4_ZeroResultsFallback ==
    zeroResults =>
      /\ localCalls = <<query_term>>
      /\ downloadRequests = 0
      /\ used_hashes = usedAtStart
      /\ hashFile = loadedFrom

\* C4 witness: a remote run whose search returned no photo has ended, and
\* get_local_image had found an image for the term.
C4_Witness ==
    zeroResults /\ pc = "done" /\ ~local_only /\ localPicked # NoPath

\* C5 as stated: without a credential a remote run sends no search request
\* and ends in failure.
C5_NoRequestWithoutKey ==
    (pc # "start" /\ api_key = NoKey /\ ~local_only)
      => (searchRequests = 0 /\ (pc = "done" => exitCode # 0))

\* C6 as stated: a single truthy argument puts the run in local-only mode
\* and no request is sent; no argument leaves it in remote mode.
C6_SingleFlagIsLocalOnly ==
    pc # "start" =>
      /\ (Len(argv) = 2 /\ Lower(argv[2]) \in TruthyStrings)
           => (local_only /\ searchRequests = 0 /\ downloadRequests = 0)
      /\ Len(argv) = 1 => ~local_only

\* C7: the setter is called at most once and only with the path the image
\* source returned; the exit status is 0 exactly when the setter was called
\* and returned success.
C7_SetterAndExitStatus ==
    /\ Len(setterCalls) <= 1
    /\ setterCalls # <<>> => (image_path # NoPath /\ setterCalls = <<abspath(image_path)>>)
    /\ pc = "done" => (exitCode = 0 <=> (setterCalls # <<>> /\ setterResult))
    /\ pc = "done" => exitCode \in {0, 1}

\* C7 witness: a remote run downloaded an image, set it and exited 0.
C7_Witness ==
    /\ pc = "done" /\ exitCode = 0
    /\ setterCalls # <<>> /\ setterResult
    /\ last.kind = "saved"

\* C8: as long as no write of the hash file failed, the file holds exactly
\* used_hashes (a fresh load returns it), and used_hashes only grows in a run.
C8_FileHoldsUsedHashes ==
    /\ [](( ~hashWriteFailed /\ pc # "start" /\ ~raised) =>
            /\ ~load_used_hashes(hashFile).raised
            /\ load_used_hashes(hashFile).value = used_hashes)
    /\ [][ pc # "done" => used_hashes \subseteq used_hashes' ]_vars

\* C8 witness: a digest was added to digests loaded at the start and the
\* file was rewritten.
C8_Witness ==
    /\ ~hashWriteFailed /\ last.kind = "saved"
    /\ usedAtStart # {} /\ used_hashes # usedAtStart

\* A hash file that is not a JSON array of digest strings.
Malformed(f) ==
    \/ f.kind \in {"missing", "unreadable", "invalid", "number", "object"}
    \/ \E i \in 1..Len(f.items) : f.items[i] \notin {get_image_hash(b) : b \in Bytes}

\* C9 as stated: load_used_hashes returns the empty set and does not raise
\* for every missing, unreadable or malformed hash file.
C9_LoadNeverRaises ==
    (pc # "start" /\ Malformed(loadedFrom)) => (~raised /\ usedAtStart = {})

\* C10: a download that returns no path leaves used_hashes and the hash file
\* as they were; a digest is added only by a step that writes the image file;
\* in one run used_hashes grows by at most the digest of the one saved image.
C10_RegistersOnlyWithSavedImage ==
    /\ [][ (Downloaded /\ last'.kind # "saved") =>
             (image_path' = NoPath /\ used_hashes' = used_hashes /\ hashFile' = hashFile)
       ]_vars
    /\ [][ (pc = "loop" /\ used_hashes' # used_hashes) =>
             /\ last'.kind = "saved"
             /\ dirs'[query_term].files[PexelsNames[last'.id]] = last'.bytes
             /\ used_hashes' = used_hashes \cup {get_image_hash(last'.bytes)}
       ]_vars
    /\ [](pc # "start" =>
            /\ usedAtStart \subseteq used_hashes
            /\ Cardinality(used_hashes \ usedAtStart) <= 1
            /\ used_hashes # usedAtStart =>
                 /\ last.kind = "saved"
                 /\ dirs[query_term].files[PexelsNames[last.id]] = last.bytes
                 /\ used_hashes = usedAtStart \cup {get_image_hash(last.bytes)})

\* C10 witness: an earlier download of the run returned no path, and the
\* next one was saved and registered.
C10_Witness ==
    /\ downloadRequests >= 2
    /\ last.kind = "saved"
    /\ used_hashes # usedAtStart

====
